---- MODULE Spec2Model ----
(***************************************************************************)
(* A model of imxrt-iomuxc (src/src/lib.rs, src/src/pwm.rs): pad           *)
(* identities (Pad<Base, Offset>, ErasedPad), the volatile register        *)
(* operations on a pad's MUX and PAD registers, Daisy::write and the       *)
(* peripheral prepare() helpers.                                           *)
(*                                                                         *)
(* A u32 register word is the set of its set bit positions, a subset of    *)
(* 0..31: the width is kept exactly, | is union, & is intersection and !   *)
(* is the complement in 0..31.  Addresses are usize integers.              *)
(***************************************************************************)
EXTENDS Integers, Sequences, FiniteSets, TLC

VARIABLES
    mem,      \* MMIO memory: register address -> u32 word
    held,     \* the pad identity the owner holds (Pad, ErasedPad or WrongPadError)
    origin,   \* the Pad<Base, Offset> that Pad::new() created
    mem0,     \* the memory before the first operation
    hist,     \* the operations run so far, with their register accesses
    conv,     \* the identity conversions run so far
    threads   \* the two racing callers: operation, position, local `mux`

vars == <<mem, mem0, held, origin, hist, conv, threads>>

\* ------------------------------------------------------------------ bounds

\* Longest sequence of register operations one owner runs.
MaxOps == 3

\* Longest sequence of identity conversions (erase, try_from, take back).
MaxConv == 4

\* ------------------------------------------------------------- u32 words

BitPositions == 0..31

\* The u32 with value n, for 0 <= n < 2^31.
ToWord(n) == {i \in 0..30 : (n \div (2 ^ i)) % 2 = 1}

BitOr(a, b) == a \cup b

BitAnd(a, b) == a \cap b

BitNot(a) == BitPositions \ a

\* const SION_BIT: u32 = 1 << 4;
SION_BIT == {4}

\* const ALT_MASK: u32 = 0b1111;
ALT_MASK == {0, 1, 2, 3}

\* --------------------------------------------------- the chip's pad table

\* The pad groups (implementors of Base).  GPIO_C shares its mux base with
\* GPIO_A, GPIO_D shares its pad base with GPIO_A, and GPIO_C and GPIO_D
\* share neither; every group has its own (mux_base, pad_base) pair.
Bases == {"GPIO_A", "GPIO_C", "GPIO_D"}

mux_base(B) ==
    CASE B = "GPIO_A" -> 4096    \* 0x1000
      [] B = "GPIO_C" -> 4096    \* 0x1000
      [] B = "GPIO_D" -> 4288    \* 0x10C0

pad_base(B) ==
    CASE B = "GPIO_A" -> 8192    \* 0x2000
      [] B = "GPIO_C" -> 8384    \* 0x20C0
      [] B = "GPIO_D" -> 8192    \* 0x2000

\* The pad numbers (Offset::USIZE) the chip defines in each group.
Offsets == {0, 3}

\* Pad<Base, Offset>: a zero-sized value; its type is the identity.
PadType(B, O) == [kind |-> "Pad", base |-> B, offset |-> O]

\* The pad types of the chip.
Pads == {PadType(B, O) : B \in Bases, O \in Offsets}

\* Pad::new()
Pad_new(B, O) == PadType(B, O)

\* ------------------------------------------------------------ pad identity

\* erase with the pad number dropped.
erase_offset_dropped(p) ==
    [kind |-> "ErasedPad",
     mux_base |-> mux_base(p.base),
     pad_base |-> pad_base(p.base),
     offset |-> 0]

\* Pad::erase: the group's two base addresses and the pad number.
erase(p) ==
    [kind |-> "ErasedPad",
     mux_base |-> mux_base(p.base),
     pad_base |-> pad_base(p.base),
     offset |-> p.offset]

\* pub struct WrongPadError(pub ErasedPad);
WrongPadError(e) == [kind |-> "WrongPadError", pad |-> e]

\* try_from with the pad_base comparison left out.
try_from_no_pad_base(erased_pad, B, O) ==
    IF /\ erased_pad.mux_base = mux_base(B)
       /\ erased_pad.offset = O
    THEN [ok |-> TRUE, value |-> Pad_new(B, O)]
    ELSE [ok |-> FALSE, value |-> WrongPadError(erased_pad)]

\* <Pad<Base, Offset> as TryFrom<ErasedPad>>::try_from
try_from(erased_pad, B, O) ==
    IF /\ erased_pad.mux_base = mux_base(B)
       /\ erased_pad.pad_base = pad_base(B)
       /\ erased_pad.offset = O
    THEN [ok |-> TRUE, value |-> Pad_new(B, O)]
    ELSE [ok |-> FALSE, value |-> WrongPadError(erased_pad)]

\* ------------------------------------------------------ register addresses

\* <Pad<Base, Offset> as Iomuxc>::mux
Pad_mux(p) == mux_base(p.base) + 4 * p.offset

\* Pad's pad() computed from the mux base.
Pad_pad_from_mux_base(p) == mux_base(p.base) + 4 * p.offset

\* <Pad<Base, Offset> as Iomuxc>::pad
Pad_pad(p) == pad_base(p.base) + 4 * p.offset

\* ErasedPad's mux() computed from the pad base.
ErasedPad_mux_from_pad_base(e) == e.pad_base + 4 * e.offset

\* <ErasedPad as Iomuxc>::mux
ErasedPad_mux(e) == e.mux_base + 4 * e.offset

\* <ErasedPad as Iomuxc>::pad
ErasedPad_pad(e) == e.pad_base + 4 * e.offset

\* I::mux() for an I: Iomuxc (Pad or ErasedPad)
mux(I) == IF I.kind = "Pad" THEN Pad_mux(I) ELSE ErasedPad_mux(I)

\* I::pad() for an I: Iomuxc (Pad or ErasedPad)
pad(I) == IF I.kind = "Pad" THEN Pad_pad(I) ELSE ErasedPad_pad(I)

\* The MUX registers, the PAD registers and the select-input (daisy)
\* registers of the chip.
MuxRegs == {mux_base(B) + 4 * O : B \in Bases, O \in Offsets}

PadRegs == {pad_base(B) + 4 * O : B \in Bases, O \in Offsets}

DaisyRegs == {12296, 12300}    \* 0x3008, 0x300C

Registers == MuxRegs \cup PadRegs \cup DaisyRegs

\* ---------------------------------------------------- volatile accesses

\* ptr::read_volatile
read_volatile(m, a) == m[a]

\* ptr::write_volatile
write_volatile(m, a, v) == [m EXCEPT ![a] = v]

\* One access as it appears on the bus.
Rd(a, v) == [access |-> "read", addr |-> a, value |-> v]

Wr(a, v) == [access |-> "write", addr |-> a, value |-> v]

\* What an operation did: the memory it leaves and its accesses in order.
Effect(m, accesses) == [mem |-> m, accesses |-> accesses]

\* ---------------------------------------------------- register operations

\* set_sion that toggles the bit (^=) instead of setting it (|=).
set_sion_toggles(m, I) ==
    LET v == read_volatile(m, mux(I))
        w == (v \ SION_BIT) \cup (SION_BIT \ v)
    IN Effect(write_volatile(m, mux(I), w), <<Rd(mux(I), v), Wr(mux(I), w)>>)

\* pub fn set_sion<I: Iomuxc>(pad: &mut I)
set_sion(m, I) ==
    LET v == read_volatile(m, mux(I))
        w == BitOr(v, SION_BIT)
    IN Effect(write_volatile(m, mux(I), w), <<Rd(mux(I), v), Wr(mux(I), w)>>)

\* clear_sion with the `!` of the mask left out.
clear_sion_mask_not_inverted(m, I) ==
    LET v == read_volatile(m, mux(I))
        w == BitAnd(v, SION_BIT)
    IN Effect(write_volatile(m, mux(I), w), <<Rd(mux(I), v), Wr(mux(I), w)>>)

\* pub fn clear_sion<I: Iomuxc>(pad: &mut I)
clear_sion(m, I) ==
    LET v == read_volatile(m, mux(I))
        w == BitAnd(v, BitNot(SION_BIT))
    IN Effect(write_volatile(m, mux(I), w), <<Rd(mux(I), v), Wr(mux(I), w)>>)

\* alternate with `alt` not masked.
alternate_unmasked(m, I, alt) ==
    LET v == read_volatile(m, mux(I))
        w == BitOr(BitAnd(v, BitNot(ALT_MASK)), alt)
    IN Effect(write_volatile(m, mux(I), w), <<Rd(mux(I), v), Wr(mux(I), w)>>)

\* pub fn alternate<I: Iomuxc>(pad: &mut I, alt: u32)
alternate(m, I, alt) ==
    LET v == read_volatile(m, mux(I))
        w == BitOr(BitAnd(v, BitNot(ALT_MASK)), BitAnd(alt, ALT_MASK))
    IN Effect(write_volatile(m, mux(I), w), <<Rd(mux(I), v), Wr(mux(I), w)>>)

\* The electrical configurations a caller passes (config::Config).
Configs ==
    {[hysteresis |-> TRUE, open_drain |-> FALSE, slew_fast |-> TRUE],
     [hysteresis |-> FALSE, open_drain |-> TRUE, slew_fast |-> FALSE]}

\* The configuration encoder: the packed PAD register word of a Config.
encode(config) ==
    (IF config.hysteresis THEN {16} ELSE {})
        \cup (IF config.open_drain THEN {11} ELSE {})
        \cup (IF config.slew_fast THEN {0} ELSE {})

\* config::configure<I: Iomuxc>(pad: &mut I, config: Config): one full-word
\* write of the encoded word to the pad's PAD register.
configure(m, I, config) ==
    LET w == encode(config)
    IN Effect(write_volatile(m, pad(I), w), <<Wr(pad(I), w)>>)

\* Pad::<Base, Offset>::configure(config)
Pad_configure(m, B, O, config) == configure(m, Pad_new(B, O), config)

\* Pad::<Base, Offset>::set_alternate(alt)
Pad_set_alternate(m, B, O, alt) == alternate(m, Pad_new(B, O), alt)

\* Pad::<Base, Offset>::set_sion()
Pad_set_sion(m, B, O) == set_sion(m, Pad_new(B, O))

\* Pad::<Base, Offset>::clear_sion()
Pad_clear_sion(m, B, O) == clear_sion(m, Pad_new(B, O))

\* Daisy::new(reg, value)
Daisy_new(reg, value) == [reg |-> reg, value |-> value]

\* Daisy::write as a read-modify-write that merges the value in.
Daisy_write_merging(m, daisy) ==
    LET v == read_volatile(m, daisy.reg)
        w == BitOr(v, daisy.value)
    IN Effect(write_volatile(m, daisy.reg, w), <<Rd(daisy.reg, v), Wr(daisy.reg, w)>>)

\* Daisy::write
Daisy_write(m, daisy) ==
    Effect(write_volatile(m, daisy.reg, daisy.value),
           <<Wr(daisy.reg, daisy.value)>>)

\* gpio::prepare that also sets SION.
gpio_prepare_sets_sion(m, pin, ALT) ==
    LET r1 == alternate(m, pin, ALT)
        r2 == set_sion(r1.mem, pin)
    IN Effect(r2.mem, r1.accesses \o r2.accesses)

\* gpio::prepare<P: Pin>(pin: &mut P), ALT being P::ALT
gpio_prepare(m, pin, ALT) == alternate(m, pin, ALT)

\* pwm::prepare that also clears SION.
pwm_prepare_clears_sion(m, pin, ALT) ==
    LET r1 == alternate(m, pin, ALT)
        r2 == clear_sion(r1.mem, pin)
    IN Effect(r2.mem, r1.accesses \o r2.accesses)

\* pwm::prepare<P: Pin>(pin: &mut P), ALT being P::ALT
pwm_prepare(m, pin, ALT) == alternate(m, pin, ALT)

\* ------------------------------------------------------------------ inputs

\* Alternate values a caller passes: 9 (0b1001) and 0xFFFF_FFF6, which is
\* wider than the 4-bit field and has bit 4 set.
AltValues == {ToWord(9), BitPositions \ {0, 3}}

\* P::ALT of the pin contracts: 5 for a GPIO pin; 0x12, which is wider than
\* the field and has bit 4 set, for a PWM pin.
GpioAlts == {ToWord(5)}

PwmAlts == {ToWord(18)}

\* The daisy selectors of the chip's table.
Daisies == {Daisy_new(12296, ToWord(2)), Daisy_new(12300, ToWord(1))}

\* Register contents before the first operation: the word every MUX
\* register, every PAD register and every daisy register holds.
Seeds ==
    {<<{4}, {}, {}>>,
     <<{0, 2, 5, 12, 31}, BitPositions, ToWord(1)>>,
     <<BitPositions, {0, 5, 12}, BitPositions>>}

SeedMemory(seed) ==
    [a \in Registers |->
        IF a \in MuxRegs THEN seed[1]
        ELSE IF a \in PadRegs THEN seed[2]
        ELSE seed[3]]

\* ------------------------------------------------ one owner, one pad: Spec

NoThreads == <<>>

Init ==
    /\ \E seed \in Seeds : mem = SeedMemory(seed)
    /\ mem0 = mem
    /\ \E B \in Bases, O \in Offsets : origin = Pad_new(B, O)
    /\ held = origin
    /\ hist = <<>>
    /\ conv = <<>>
    /\ threads = NoThreads

\* The owner holds something that implements Iomuxc.
HoldsPad == held.kind \in {"Pad", "ErasedPad"}

\* The operation `op` ran with argument `arg` through identity `id` and had
\* effect `r`.
Ran(op, arg, id, r) ==
    /\ mem' = r.mem
    /\ hist' = Append(hist,
                      [op |-> op, arg |-> arg, id |-> id,
                       accesses |-> r.accesses, before |-> mem])
    /\ UNCHANGED <<mem0, held, origin, conv, threads>>

CanRun == HoldsPad /\ Len(hist) < MaxOps

SetSion ==
    /\ CanRun
    /\ Ran("set_sion", {}, held, set_sion(mem, held))

ClearSion ==
    /\ CanRun
    /\ Ran("clear_sion", {}, held, clear_sion(mem, held))

Alternate ==
    /\ CanRun
    /\ \E alt \in AltValues : Ran("alternate", alt, held, alternate(mem, held, alt))

Configure ==
    /\ CanRun
    /\ \E config \in Configs :
          Ran("configure", config, held, configure(mem, held, config))

\* The associated function of the owner's own pad type.
PadConfigure ==
    /\ CanRun
    /\ \E config \in Configs :
          Ran("Pad::configure", config, origin,
              Pad_configure(mem, origin.base, origin.offset, config))

\* Only a strongly-typed pad implements a Pin contract.
GpioPrepare ==
    /\ CanRun
    /\ held.kind = "Pad"
    /\ \E ALT \in GpioAlts : Ran("gpio::prepare", ALT, held, gpio_prepare(mem, held, ALT))

PwmPrepare ==
    /\ CanRun
    /\ held.kind = "Pad"
    /\ \E ALT \in PwmAlts : Ran("pwm::prepare", ALT, held, pwm_prepare(mem, held, ALT))

DaisyWrite ==
    /\ CanRun
    /\ \E daisy \in Daisies : Ran("Daisy::write", daisy, held, Daisy_write(mem, daisy))

\* The conversion `op` took `input`, aimed at the pad type `target`, and
\* left the owner holding `output`.
Converted(op, input, target, ok, output) ==
    /\ held' = output
    /\ conv' = Append(conv,
                      [op |-> op, input |-> input, target |-> target,
                       ok |-> ok, output |-> output])
    /\ UNCHANGED <<mem, mem0, origin, hist, threads>>

CanConvert == Len(conv) < MaxConv /\ threads = NoThreads

Erase ==
    /\ CanConvert
    /\ held.kind = "Pad"
    /\ Converted("erase", held, held, TRUE, erase(held))

TryFrom ==
    /\ CanConvert
    /\ held.kind = "ErasedPad"
    /\ \E B \in Bases, O \in Offsets :
          LET r == try_from(held, B, O)
          IN Converted("try_from", held, PadType(B, O), r.ok, r.value)

\* The caller takes the ErasedPad back out of the WrongPadError (its
\* public field).
TakeBack ==
    /\ CanConvert
    /\ held.kind = "WrongPadError"
    /\ Converted("take", held, held.pad, TRUE, held.pad)

Next ==
    \/ SetSion
    \/ ClearSion
    \/ Alternate
    \/ Configure
    \/ PadConfigure
    \/ GpioPrepare
    \/ PwmPrepare
    \/ DaisyWrite
    \/ Erase

Spec == Init /\ [][Next]_vars

\* ------------------------------------- identity conversions: SpecIdentity

NextIdentity ==
    \/ Erase
    \/ TryFrom
    \/ TakeBack

SpecIdentity == Init /\ [][NextIdentity]_vars

\* --------------------------------------------- two callers, one pad: SpecRace

Threads == {1, 2}

\* What a caller may run: thread 1 goes through the identity the owner
\* holds, thread 2 through the associated functions of the pad type, each of
\* which makes a second identity with Pad::new().
Calls(t) ==
    IF t = 1
    THEN {<<"set_sion", {}>>, <<"clear_sion", {}>>}
             \cup {<<"alternate", alt>> : alt \in AltValues}
             \cup {<<"configure", config>> : config \in Configs}
    ELSE {<<"Pad::set_sion", {}>>, <<"Pad::clear_sion", {}>>}
             \cup {<<"Pad::set_alternate", alt>> : alt \in AltValues}
             \cup {<<"Pad::configure", config>> : config \in Configs}

\* The effect of the call `op(arg)` through identity `id` on memory `m`.
OpEffect(op, arg, id, m) ==
    CASE op = "set_sion" -> set_sion(m, id)
      [] op = "clear_sion" -> clear_sion(m, id)
      [] op = "alternate" -> alternate(m, id, arg)
      [] op = "configure" -> configure(m, id, arg)
      [] op = "Pad::set_sion" -> Pad_set_sion(m, id.base, id.offset)
      [] op = "Pad::clear_sion" -> Pad_clear_sion(m, id.base, id.offset)
      [] op = "Pad::set_alternate" -> Pad_set_alternate(m, id.base, id.offset, arg)
      [] op = "Pad::configure" -> Pad_configure(m, id.base, id.offset, arg)

Idle == [op |-> "none", arg |-> {}, id |-> {}, pc |-> 0, local |-> <<>>]

\* The owner holds the pad, strongly typed or erased.
InitRace ==
    /\ \E seed \in Seeds : mem = SeedMemory(seed)
    /\ mem0 = mem
    /\ \E B \in Bases, O \in Offsets : origin = Pad_new(B, O)
    /\ held \in {origin, erase(origin)}
    /\ hist = <<>>
    /\ conv = <<>>
    /\ threads = [t \in Threads |-> Idle]

Call(t) ==
    /\ threads[t].op = "none"
    /\ \E c \in Calls(t) :
          threads' = [threads EXCEPT ![t] =
                         [op |-> c[1], arg |-> c[2],
                          id |-> IF t = 1 THEN held ELSE origin,
                          pc |-> 0, local |-> <<>>]]
    /\ UNCHANGED <<mem, mem0, held, origin, hist, conv>>

\* The write computed from what the register holds at the time of the
\* write, as an atomic read-modify-write would.
Stale_rereads(t) == mem

\* The memory as thread t's code sees it: the register it has read is the
\* value in its local variable, whatever the register holds by now.
Stale(t) ==
    IF threads[t].local = <<>> THEN mem
    ELSE [mem EXCEPT ![threads[t].local[1]] = threads[t].local[2]]

\* The accesses of thread t's call, given what it has read.
Accesses(t) ==
    OpEffect(threads[t].op, threads[t].arg, threads[t].id, Stale(t)).accesses

Running(t) ==
    /\ threads[t].op # "none"
    /\ threads[t].pc < Len(Accesses(t))

Finished(t) ==
    /\ threads[t].op # "none"
    /\ threads[t].pc = Len(Accesses(t))

\* Thread t's next access is a volatile read: the value goes to its local.
ReadStep(t) ==
    /\ Running(t)
    /\ LET a == Accesses(t)[threads[t].pc + 1]
       IN /\ a.access = "read"
          /\ threads' = [threads EXCEPT ![t].pc = @ + 1,
                                        ![t].local = <<a.addr, read_volatile(mem, a.addr)>>]
          /\ hist' = Append(hist, [thread |-> t, access |-> "read", addr |-> a.addr,
                                   value |-> read_volatile(mem, a.addr)])
          /\ UNCHANGED <<mem, mem0, held, origin, conv>>

\* Thread t's next access is a volatile write of the value it computed.
WriteStep(t) ==
    /\ Running(t)
    /\ LET a == Accesses(t)[threads[t].pc + 1]
       IN /\ a.access = "write"
          /\ mem' = write_volatile(mem, a.addr, a.value)
          /\ threads' = [threads EXCEPT ![t].pc = @ + 1]
          /\ hist' = Append(hist, [thread |-> t, access |-> "write", addr |-> a.addr,
                                   value |-> a.value])
          /\ UNCHANGED <<mem0, held, origin, conv>>

NextRace ==
    \E t \in Threads :
        \/ Call(t)
        \/ ReadStep(t)
        \/ WriteStep(t)

SpecRace == InitRace /\ [][NextRace]_vars

\* -------------------------------------------------------------- properties

\* The registers of the pad the owner was given, by the chip's table.
OriginMux == mux_base(origin.base) + 4 * origin.offset

OriginPad == pad_base(origin.base) + 4 * origin.offset

\* The memory right after the i-th operation of hist.
After(i) == IF i < Len(hist) THEN hist[i + 1].before ELSE mem

\* C1: erase() of a Pad<Base, Offset> yields the group's mux base, pad base
\* and the pad number unchanged, and try_from of that value against the same
\* Pad<Base, Offset> succeeds and gives the identity back.
C1_EraseThenRecover ==
    \A i \in 1..Len(conv) :
        conv[i].op = "erase" =>
            /\ conv[i].output.kind = "ErasedPad"
            /\ conv[i].output.mux_base = mux_base(conv[i].input.base)
            /\ conv[i].output.pad_base = pad_base(conv[i].input.base)
            /\ conv[i].output.offset = conv[i].input.offset
            /\ (i < Len(conv) /\ conv[i + 1].op = "try_from"
                    /\ conv[i + 1].target = conv[i].input)
                   => /\ conv[i + 1].ok
                      /\ conv[i + 1].output = conv[i].input

C1_Witness ==
    \E i \in 1..Len(conv) :
        /\ i < Len(conv)
        /\ conv[i].op = "erase"
        /\ conv[i].input.offset = 3
        /\ conv[i + 1].op = "try_from"
        /\ conv[i + 1].target = conv[i].input
        /\ conv[i + 1].ok

\* The erased value `e` has the three fields of the pad type `target`.
FieldsMatch(e, target) ==
    /\ e.mux_base = mux_base(target.base)
    /\ e.pad_base = pad_base(target.base)
    /\ e.offset = target.offset

\* C2: try_from succeeds if and only if the erased value's mux base, pad
\* base and pad number all match the target type; against a type other than
\* the pad's own it fails with a WrongPadError that carries the input
\* unchanged, and a later try_from of the carried value against the pad's
\* own type succeeds.
C2_MismatchReturnsInput ==
    \A i \in 1..Len(conv) :
        conv[i].op = "try_from" =>
            /\ conv[i].ok <=> FieldsMatch(conv[i].input, conv[i].target)
            /\ conv[i].ok => conv[i].output = conv[i].target
            /\ conv[i].target # origin =>
                  /\ ~conv[i].ok
                  /\ conv[i].output.kind = "WrongPadError"
                  /\ conv[i].output.pad = conv[i].input
            /\ (/\ ~conv[i].ok
                /\ i + 2 <= Len(conv)
                /\ conv[i + 1].op = "take"
                /\ conv[i + 2].op = "try_from"
                /\ conv[i + 2].target = origin)
                   => /\ conv[i + 2].input = conv[i].input
                      /\ conv[i + 2].ok

C2_Witness ==
    \E i \in 1..Len(conv) :
        /\ i + 2 <= Len(conv)
        /\ conv[i].op = "try_from"
        /\ conv[i].target.base # origin.base
        /\ mux_base(conv[i].target.base) = mux_base(origin.base)
        /\ conv[i].target.offset = origin.offset
        /\ ~conv[i].ok
        /\ conv[i + 1].op = "take"
        /\ conv[i + 2].op = "try_from"
        /\ conv[i + 2].ok

\* C3: alternate(pad, v) leaves the mux register with its low 4 bits equal
\* to v & 0b1111 and its bits 4..31 as they were, for v of any width; a
\* register holding 0x10 and v = 9 give 0x19.
C3_AlternateSetsLowFour ==
    \A i \in 1..Len(hist) :
        hist[i].op = "alternate" =>
            LET m == hist[i].before[OriginMux]
                v == hist[i].arg
                w == After(i)[OriginMux]
            IN /\ BitAnd(w, ALT_MASK) = BitAnd(v, ALT_MASK)
               /\ BitAnd(w, BitNot(ALT_MASK)) = BitAnd(m, BitNot(ALT_MASK))
               /\ (m = ToWord(16) /\ v = ToWord(9)) => w = ToWord(25)

C3_Witness ==
    \E i \in 1..Len(hist), j \in 1..Len(hist) :
        /\ hist[i].op = "alternate"
        /\ hist[i].before[OriginMux] = ToWord(16)
        /\ hist[i].arg = ToWord(9)
        /\ After(i)[OriginMux] = ToWord(25)
        /\ hist[j].op = "alternate"
        /\ 31 \in hist[j].arg
        /\ 4 \notin hist[j].before[OriginMux]
        /\ 4 \notin After(j)[OriginMux]

\* The operations i and i + 1 of hist are `first` and then `second`.
Pair(i, first, second) ==
    /\ i + 1 <= Len(hist)
    /\ hist[i].op = first
    /\ hist[i + 1].op = second

\* C4 as stated: set_sion then clear_sion, or clear_sion then set_sion,
\* leaves the mux register as it was before the pair: bit 4 back at its
\* earlier value, every other bit untouched.
C4_PairRestoresBit4 ==
    \A i \in 1..Len(hist) :
        (Pair(i, "set_sion", "clear_sion") \/ Pair(i, "clear_sion", "set_sion"))
            => After(i + 1)[OriginMux] = hist[i].before[OriginMux]

\* C4 amended: after set_sion then clear_sion bit 4 is clear, after
\* clear_sion then set_sion bit 4 is set, whatever it was before the pair,
\* and every other bit is untouched; bit 4 is back at its earlier value
\* exactly when that value is the one the second call writes.
C4_SecondCallDecidesBit4 ==
    \A i \in 1..Len(hist) :
        LET m == hist[i].before[OriginMux]
            w == After(i + 1)[OriginMux]
        IN /\ Pair(i, "set_sion", "clear_sion") =>
                 /\ w = m \ {4}
                 /\ (w = m <=> 4 \notin m)
           /\ Pair(i, "clear_sion", "set_sion") =>
                 /\ w = m \cup {4}
                 /\ (w = m <=> 4 \in m)

C4_Witness ==
    \E i \in 1..Len(hist) :
        /\ Pair(i, "set_sion", "clear_sion")
        /\ 4 \in hist[i].before[OriginMux]
        /\ 4 \notin After(i + 1)[OriginMux]
        /\ 31 \in After(i + 1)[OriginMux]

\* C5: set_sion twice in a row leaves memory exactly as set_sion once does
\* (bit 4 set, every other bit as before), and clear_sion twice exactly as
\* clear_sion once does (bit 4 clear, every other bit as before).
C5_SionIdempotent ==
    \A i \in 1..Len(hist) :
        /\ Pair(i, "set_sion", "set_sion") =>
              /\ After(i + 1) = After(i)
              /\ After(i)[OriginMux] = hist[i].before[OriginMux] \cup {4}
        /\ Pair(i, "clear_sion", "clear_sion") =>
              /\ After(i + 1) = After(i)
              /\ After(i)[OriginMux] = hist[i].before[OriginMux] \ {4}

C5_Witness ==
    \E i \in 1..Len(hist) :
        /\ Pair(i, "set_sion", "set_sion")
        /\ 4 \notin hist[i].before[OriginMux]
        /\ 4 \in After(i + 1)[OriginMux]

\* Every register other than `a` holds after operation i what it held
\* before it.
OnlyChanges(i, a) ==
    \A b \in Registers \ {a} : After(i)[b] = hist[i].before[b]

C7_DaisyWriteOnce ==
    \A i \in 1..Len(hist) :
        hist[i].op = "Daisy::write" =>
            /\ hist[i].accesses = <<Wr(hist[i].arg.reg, hist[i].arg.value)>>
            /\ After(i)[hist[i].arg.reg] = hist[i].arg.value
            /\ OnlyChanges(i, hist[i].arg.reg)

C7_Witness ==
    \E i \in 1..Len(hist) :
        /\ hist[i].op = "Daisy::write"
        /\ hist[i].arg = Daisy_new(12296, ToWord(2))
        /\ hist[i].before[12296] = BitPositions
        /\ After(i)[12296] = ToWord(2)

MuxOps == {"set_sion", "clear_sion", "alternate"}

\* C8: the Pad and the ErasedPad made from it both resolve the mux register
\* to mux_base + 4 * index and the pad register to pad_base + 4 * index
\* (0x100C and 0x200C for bases 0x1000, 0x2000 and index 3), and set_sion,
\* clear_sion and alternate read and write that mux address only: every
\* other register is neither accessed nor changed.
C8_MuxOpsTouchOwnMuxOnly ==
    /\ held.kind = "Pad" =>
          /\ Pad_mux(held) = OriginMux
          /\ Pad_pad(held) = OriginPad
    /\ held.kind = "ErasedPad" =>
          /\ ErasedPad_mux(held) = OriginMux
          /\ ErasedPad_pad(held) = OriginPad
    /\ origin = PadType("GPIO_A", 3) =>
          /\ mux(held) = 4108
          /\ pad(held) = 8204
    /\ \A i \in 1..Len(hist) :
          hist[i].op \in MuxOps =>
              /\ Len(hist[i].accesses) = 2
              /\ hist[i].accesses[1].access = "read"
              /\ hist[i].accesses[2].access = "write"
              /\ \A k \in 1..2 : hist[i].accesses[k].addr = OriginMux
              /\ OnlyChanges(i, OriginMux)

C8_Witness ==
    /\ origin = PadType("GPIO_A", 3)
    /\ \E i \in 1..Len(hist), j \in 1..Len(hist) :
          /\ hist[i].op \in MuxOps
          /\ hist[i].id.kind = "Pad"
          /\ hist[i].accesses[2].addr = 4108
          /\ hist[j].op \in MuxOps
          /\ hist[j].id.kind = "ErasedPad"
          /\ hist[j].accesses[2].addr = 4108
          /\ After(j)[4108] # hist[j].before[4108]

\* C9: prepare(pin) reads the pin's mux register and writes it back with
\* the low 4 bits replaced by ALT & 0b1111 and bits 4..31 (SION included) as
\* read; it makes no other access and changes no other register (no daisy
\* register, no PAD register).
C9_PrepareSetsAltOnly ==
    \A i \in 1..Len(hist) :
        hist[i].op \in {"gpio::prepare", "pwm::prepare"} =>
            LET m == hist[i].before[OriginMux]
                w == After(i)[OriginMux]
            IN /\ hist[i].accesses = <<Rd(OriginMux, m), Wr(OriginMux, w)>>
               /\ BitAnd(w, ALT_MASK) = BitAnd(hist[i].arg, ALT_MASK)
               /\ BitAnd(w, BitNot(ALT_MASK)) = BitAnd(m, BitNot(ALT_MASK))
               /\ OnlyChanges(i, OriginMux)

C9_Witness ==
    \E i \in 1..Len(hist), j \in 1..Len(hist) :
        /\ hist[i].op = "gpio::prepare"
        /\ After(i)[OriginMux] # hist[i].before[OriginMux]
        /\ hist[j].op = "pwm::prepare"
        /\ 4 \in hist[j].arg
        /\ 4 \notin hist[j].before[OriginMux]
        /\ 4 \notin After(j)[OriginMux]

\* Both callers have returned.
RaceDone == \A t \in Threads : Finished(t)

\* Memory after thread a's call and then thread b's, run from the start
\* one after the other.
Serial(a, b) ==
    LET first == OpEffect(threads[a].op, threads[a].arg, threads[a].id, mem0).mem
    IN OpEffect(threads[b].op, threads[b].arg, threads[b].id, first).mem

\* The values the mux register can hold after the two calls in a serial
\* order.
SerialMux == {Serial(1, 2)[OriginMux], Serial(2, 1)[OriginMux]}

\* One caller runs alternate and the other configure, on the same pad.
AlternateVsConfigure ==
    \/ threads[1].op = "alternate" /\ threads[2].op = "Pad::configure"
    \/ threads[1].op = "configure" /\ threads[2].op = "Pad::set_alternate"

\* The two calls overlapped: the write of one caller fell between the read
\* and the write of the other.
Overlapped ==
    \E i, j, k \in 1..Len(hist) :
        /\ i < j /\ j < k
        /\ hist[i].access = "read"
        /\ hist[k].access = "write"
        /\ hist[k].thread = hist[i].thread
        /\ hist[j].access = "write"
        /\ hist[j].thread # hist[i].thread

MuxVsMux ==
    /\ threads[1].op \in {"set_sion", "clear_sion", "alternate"}
    /\ threads[2].op \in {"Pad::set_sion", "Pad::clear_sion", "Pad::set_alternate"}

\* One caller runs set_sion and the other alternate.
SionVsAlternate ==
    \/ threads[1].op = "set_sion" /\ threads[2].op = "Pad::set_alternate"
    \/ threads[1].op = "alternate" /\ threads[2].op = "Pad::set_sion"

\* The caller of the two that runs alternate.
AlternateThread == IF threads[1].op = "alternate" THEN 1 ELSE 2

\* Memory after thread t's call alone, run from the start.
Solo(t) == OpEffect(threads[t].op, threads[t].arg, threads[t].id, mem0).mem

\* The accesses thread t has made, in order.
AccessesOf(t) == SelectSeq(hist, LAMBDA e : e.thread = t)

\* C11: each mux operation is one volatile read followed by one volatile
\* write of the pad's mux register.  With two identities of one pad and two
\* mux operations running concurrently, when both reads come before both
\* writes the mux register ends as the later writer's operation alone leaves
\* it, the other update being missed; for set_sion against alternate, from a
\* register with bit 4 clear and other low bits than alt's, that is
\* mux | 0x10 or (mux & !0b1111) | (alt & 0b1111), the value of neither
\* serial order.  When the two operations do not overlap, memory ends as
\* their sequential composition leaves it.
C11_LostUpdateOrSerial ==
    (RaceDone /\ MuxVsMux) =>
        LET last == hist[Len(hist)].thread
            first == CHOOSE t \in Threads : t # last
            m == mem0[OriginMux]
            alt == threads[AlternateThread].arg
        IN /\ \A t \in Threads :
                 /\ Len(AccessesOf(t)) = 2
                 /\ AccessesOf(t)[1].access = "read"
                 /\ AccessesOf(t)[2].access = "write"
                 /\ \A k \in 1..2 : AccessesOf(t)[k].addr = OriginMux
           /\ Overlapped => mem = Solo(last)
           /\ ~Overlapped => mem = Serial(first, last)
           /\ (/\ Overlapped
               /\ SionVsAlternate
               /\ 4 \notin m
               /\ BitAnd(alt, ALT_MASK) # BitAnd(m, ALT_MASK))
                  => /\ mem[OriginMux] \notin SerialMux
                     /\ mem[OriginMux] =
                            IF last = AlternateThread
                            THEN (m \ ALT_MASK) \cup (alt \cap ALT_MASK)
                            ELSE m \cup {4}

C11_Witness ==
    /\ RaceDone
    /\ SionVsAlternate
    /\ Overlapped
    /\ held.kind = "ErasedPad"
    /\ hist[Len(hist)].thread = AlternateThread
    /\ 4 \notin mem[OriginMux]
    /\ 4 \in Serial(1, 2)[OriginMux]
    /\ 4 \in Serial(2, 1)[OriginMux]
    /\ mem[OriginMux] \notin SerialMux

\* The operations that set the alternate field and those that set bit 4.
AltOps == {"alternate", "gpio::prepare", "pwm::prepare"}

SionOps == {"set_sion", "clear_sion"}

\* The last operation of hist that is one of `ops`, 0 if there is none.
LastOf(ops) ==
    LET S == {i \in 1..Len(hist) : hist[i].op \in ops}
    IN IF S = {} THEN 0 ELSE CHOOSE i \in S : \A j \in S : j <= i

\* C12: after any sequence of operations run one at a time on one pad,
\* prepare repeated freely, bits 5..31 of the mux register are as at the
\* start, the low 4 bits are the masked value of the most recent alternate
\* or prepare (as at the start if there was none), and bit 4 is set or clear
\* as the most recent of set_sion and clear_sion left it (as at the start if
\* there was none).
C12_MuxFieldsFollowLastCall ==
    LET m == mem0[OriginMux]
        w == mem[OriginMux]
        a == LastOf(AltOps)
        b == LastOf(SionOps)
    IN /\ w \ (0..4) = m \ (0..4)
       /\ BitAnd(w, ALT_MASK) =
              IF a = 0 THEN BitAnd(m, ALT_MASK) ELSE BitAnd(hist[a].arg, ALT_MASK)
       /\ 4 \in w <=>
              IF b = 0 THEN 4 \in m ELSE hist[b].op = "set_sion"

C12_Witness ==
    /\ Len(hist) = 3
    /\ hist[1].op = "gpio::prepare"
    /\ hist[2].op = "set_sion"
    /\ hist[3].op = "pwm::prepare"
    /\ 4 \notin mem0[OriginMux]
    /\ 31 \in mem0[OriginMux]
    /\ mem[OriginMux] = (mem0[OriginMux] \ ALT_MASK) \cup {1, 4}

====
